---- MODULE Spec2Model ----
(***************************************************************************)
(* Model of the Twitch IRC client of src/twitch/twitch.py: the tag parser  *)
(* (TwitchPrivateMessage.parse), the connection (Twitch.connect,           *)
(* Twitch.disconnect), the dispatch loop (Twitch.__recv and                *)
(* Twitch.__message_handler, one daemon thread), the delivery channel      *)
(* (queue.Queue) and its consumer (Twitch.read).                           *)
(*                                                                         *)
(* A Python str is a sequence of one-character strings.                    *)
(***************************************************************************)
EXTENDS Integers, Sequences, FiniteSets, TLC

(***************************************************************************)
(* Bounds of the model.                                                    *)
(***************************************************************************)
\* lines the server sends over the lifetime of the socket
MaxLines == 3

(***************************************************************************)
(* Program constants.                                                      *)
(***************************************************************************)
\* self.__sock.recv(2048)
RecvSize == 2048
\* the maxsplit argument of message.split(" :", 3)
ParseMaxSplit == 3
\* str.split without a maxsplit argument
NoLimit == -1

DEFAULT_USER == <<"j", "u", "s", "t", "i", "n", "f", "a", "n", "1", "2", "3", "4", "5">>
DEFAULT_TOKEN == <<"o", "a", "u", "t", "h", ":", "1", "2", "3", "4", "5", "6", "7", "8", "9", "0">>

PING == <<"P", "I", "N", "G">>
PRIVMSG == <<"P", "R", "I", "V", "M", "S", "G">>
RECONNECT == <<"R", "E", "C", "O", "N", "N", "E", "C", "T">>

(***************************************************************************)
(* Python str methods.                                                     *)
(***************************************************************************)
Whitespace == {" ", "\t", "\n", "\r", "\f"}
Digits == <<"0", "1", "2", "3", "4", "5", "6", "7", "8", "9">>

\* s.startswith(p)
StartsWith(s, p) == Len(s) >= Len(p) /\ SubSeq(s, 1, Len(p)) = p

\* s.find(sub) + 1: the 1-based position of the first occurrence, 0 if none
Find(s, sub) ==
    LET idx == {i \in 1..(Len(s) - Len(sub) + 1) : SubSeq(s, i, i + Len(sub) - 1) = sub}
    IN IF idx = {} THEN 0 ELSE CHOOSE i \in idx : \A j \in idx : i <= j

\* sub in s
Contains(s, sub) == Find(s, sub) # 0

\* s.split(sep, maxsplit) for a non-empty sep; maxsplit = -1 is "no limit"
RECURSIVE Split(_, _, _)
Split(s, sep, maxsplit) ==
    LET i == Find(s, sep)
    IN IF maxsplit = 0 \/ i = 0
       THEN <<s>>
       ELSE <<SubSeq(s, 1, i - 1)>>
            \o Split(SubSeq(s, i + Len(sep), Len(s)), sep, maxsplit - 1)

\* s.lstrip(chars): drops every leading character that is in the set chars
RECURSIVE LStrip(_, _)
LStrip(s, chars) ==
    IF s # <<>> /\ Head(s) \in chars THEN LStrip(Tail(s), chars) ELSE s

RECURSIVE RStrip(_, _)
RStrip(s, chars) ==
    IF s # <<>> /\ s[Len(s)] \in chars
    THEN RStrip(SubSeq(s, 1, Len(s) - 1), chars) ELSE s

\* s.strip()
Strip(s) == RStrip(LStrip(s, Whitespace), Whitespace)

SetOf(seq) == {seq[i] : i \in 1..Len(seq)}

\* int(s) is defined for a non-empty string of decimal digits (the signs,
\* blanks and underscores int() also accepts do not occur in tag values)
IsInt(s) == s # <<>> /\ \A i \in 1..Len(s) : s[i] \in SetOf(Digits)

DigitValue(c) == (CHOOSE i \in 1..10 : Digits[i] = c) - 1

RECURSIVE IntOf(_)
IntOf(s) ==
    IF s = <<>> THEN 0
    ELSE 10 * IntOf(SubSeq(s, 1, Len(s) - 1)) + DigitValue(s[Len(s)])

(***************************************************************************)
(* TwitchPrivateMessage.parse                                              *)
(***************************************************************************)
(* bytes.decode("utf-8").  A byte below 0x80 is written as its character.  *)
(* The two bytes of one two-byte character stand for every multi-byte      *)
(* character: the lead byte must be followed by its continuation byte in   *)
(* the same bytes object.                                                  *)
(***************************************************************************)
LeadByte == "0xC3"
ContByte == "0xA9"
TwoByteChar == "U+00E9"

\* no lead byte lacks its continuation byte, no continuation byte its lead byte
Decodable(bytes) ==
    \A i \in 1..Len(bytes) :
        /\ bytes[i] = LeadByte => (i < Len(bytes) /\ bytes[i + 1] = ContByte)
        /\ bytes[i] = ContByte => (i > 1 /\ bytes[i - 1] = LeadByte)

IsNotContByte(b) == b # ContByte

\* each lead byte and its continuation byte become the one character
Decode(bytes) ==
    LET leads == SelectSeq(bytes, IsNotContByte)
    IN [i \in 1..Len(leads) |->
            IF leads[i] = LeadByte THEN TwoByteChar ELSE leads[i]]

(***************************************************************************)
RequiredTags ==
    << <<"b", "a", "d", "g", "e", "s">>,
       <<"c", "o", "l", "o", "r">>,
       <<"d", "i", "s", "p", "l", "a", "y", "-", "n", "a", "m", "e">>,
       <<"f", "i", "r", "s", "t", "-", "m", "s", "g">>,
       <<"i", "d">>,
       <<"m", "o", "d">>,
       <<"r", "e", "t", "u", "r", "n", "i", "n", "g", "-", "c", "h", "a", "t", "t", "e", "r">>,
       <<"r", "o", "o", "m", "-", "i", "d">>,
       <<"s", "u", "b", "s", "c", "r", "i", "b", "e", "r">>,
       <<"t", "u", "r", "b", "o">>,
       <<"u", "s", "e", "r", "-", "i", "d">> >>

\* [tag.split("=") for tag in parts[0].split(";")]
TagPairs(block) ==
    LET tagList == Split(block, <<";">>, NoLimit)
    IN [i \in 1..Len(tagList) |-> Split(tagList[i], <<"=">>, NoLimit)]

\* the dict comprehension unpacks every pair into (key, value)
PairsUnpack(pairs) == \A i \in 1..Len(pairs) : Len(pairs[i]) = 2

HasTag(pairs, key) == \E i \in 1..Len(pairs) : pairs[i][1] = key

\* tags[key]: in a dict the last pair with the key wins
Tag(pairs, key) ==
    LET idx == {i \in 1..Len(pairs) : pairs[i][1] = key}
    IN pairs[CHOOSE i \in idx : \A j \in idx : j <= i][2]

IsOne(v) == v = <<"1">>

\* any(string.startswith("broadcaster/") for string in badges)
IsBroadcaster(badges) ==
    \E b \in badges :
        StartsWith(b, <<"b", "r", "o", "a", "d", "c", "a", "s", "t", "e", "r", "/">>)

\* parts[1].split(" ")[-1].lstrip("#")
ChannelOf(part) ==
    LET words == Split(part, <<" ">>, NoLimit)
    IN LStrip(words[Len(words)], {"#"})

\* The exception parse raises on the message, in the order the statements of
\* parse run; "" when parse returns.
ParseError(message) ==
    LET parts == Split(message, <<" ", ":">>, ParseMaxSplit)
        pairs == TagPairs(parts[1])
        Missing(from, to) == \E k \in from..to : ~HasTag(pairs, RequiredTags[k])
    IN IF ~PairsUnpack(pairs) THEN "ValueError"
       ELSE IF Missing(1, 8) THEN "KeyError"
       ELSE IF ~IsInt(Tag(pairs, RequiredTags[8])) THEN "ValueError"
       ELSE IF Missing(9, 11) THEN "KeyError"
       ELSE IF ~IsInt(Tag(pairs, RequiredTags[11])) THEN "ValueError"
       ELSE IF Len(parts) < 3 THEN "IndexError"
       ELSE ""

\* The TwitchPrivateMessage parse returns (defined when ParseError is "").
Parse(message) ==
    LET parts == Split(message, <<" ", ":">>, ParseMaxSplit)
        tags == TagPairs(parts[1])
        badges == SetOf(Split(Tag(tags, RequiredTags[1]), <<",">>, NoLimit))
    IN [badges |-> badges,
        color |-> Tag(tags, RequiredTags[2]),
        name |-> Tag(tags, RequiredTags[3]),
        is_first_message |-> IsOne(Tag(tags, RequiredTags[4])),
        message_id |-> Tag(tags, RequiredTags[5]),
        is_moderator |-> IsOne(Tag(tags, RequiredTags[6])),
        is_broadcaster |-> IsBroadcaster(badges),
        is_returning_chatter |-> IsOne(Tag(tags, RequiredTags[7])),
        room_id |-> IntOf(Tag(tags, RequiredTags[8])),
        is_subscriber |-> IsOne(Tag(tags, RequiredTags[9])),
        is_turbo |-> IsOne(Tag(tags, RequiredTags[10])),
        user_id |-> IntOf(Tag(tags, RequiredTags[11])),
        channel |-> ChannelOf(parts[2]),
        content |-> parts[3]]

(***************************************************************************)
(* The lines the server sends.  The n-th line of the connection is a       *)
(* keepalive ping, a chat message with all required tags and message id n, *)
(* a chat message without a tag block, a forced reconnect, or a numeric    *)
(* reply.                                                                  *)
(***************************************************************************)
PingLine == <<"P", "I", "N", "G", " ", ":", "t", "m", "i", ".", "t", "w", "i", "t", "c", "h", ".", "t", "v">>
ReconnectLine == <<":", "t", "m", "i", ".", "t", "w", "i", "t", "c", "h", ".", "t", "v", " ", "R", "E", "C", "O", "N", "N", "E", "C", "T">>
OtherLine == <<":", "t", "m", "i", ".", "t", "w", "i", "t", "c", "h", ".", "t", "v", " ", "0", "0", "1", " ", "a", " ", ":", "W", "e", "l", "c", "o", "m", "e">>
UntaggedChatLine == <<":", "a", "!", "a", "@", "a", ".", "t", "m", "i", ".", "t", "w", "i", "t", "c", "h", ".", "t", "v", " ", "P", "R", "I", "V", "M", "S", "G", " ", "#", "c", " ", ":", "h", "i">>

ChatLine(n) ==
    <<"@", "b", "a", "d", "g", "e", "-", "i", "n", "f", "o", "=", ";", "b", "a", "d", "g", "e", "s", "=", "b", "r", "o", "a", "d", "c", "a", "s", "t", "e", "r", "/", "1", ";", "c", "o", "l", "o", "r", "=", ";", "d", "i", "s", "p", "l", "a", "y", "-", "n", "a", "m", "e", "=", "A", ";", "f", "i", "r", "s", "t", "-", "m", "s", "g", "=", "0", ";", "i", "d", "=">>
    \o <<Digits[n + 1]>>
    \o <<";", "m", "o", "d", "=", "0", ";", "r", "e", "t", "u", "r", "n", "i", "n", "g", "-", "c", "h", "a", "t", "t", "e", "r", "=", "0", ";", "r", "o", "o", "m", "-", "i", "d", "=", "1", ";", "s", "u", "b", "s", "c", "r", "i", "b", "e", "r", "=", "0", ";", "t", "u", "r", "b", "o", "=", "0", ";", "u", "s", "e", "r", "-", "i", "d", "=", "2", " ", ":", "a", "!", "a", "@", "a", ".", "t", "m", "i", ".", "t", "w", "i", "t", "c", "h", ".", "t", "v", " ", "P", "R", "I", "V", "M", "S", "G", " ", "#", "c", " ", ":", "h", "i">>

ServerLines(n) == {PingLine, ChatLine(n), UntaggedChatLine, ReconnectLine, OtherLine}

LineEnd == <<"\r", "\n">>

(***************************************************************************)
(* Outbound frames.                                                        *)
(***************************************************************************)
PassFrame(tok) == <<"P", "A", "S", "S", " ", "o", "a", "u", "t", "h", ":">> \o tok \o <<"\n">>
NickFrame(usr) == <<"N", "I", "C", "K", " ">> \o usr \o <<"\n">>
CapTagsFrame == <<"C", "A", "P", " ", "R", "E", "Q", " ", ":", "t", "w", "i", "t", "c", "h", ".", "t", "v", "/", "t", "a", "g", "s", "\n">>
CapCommandsFrame == <<"C", "A", "P", " ", "R", "E", "Q", " ", ":", "t", "w", "i", "t", "c", "h", ".", "t", "v", "/", "c", "o", "m", "m", "a", "n", "d", "s", "\n">>
PongFrameBare == <<"P", "O", "N", "G", "\n">>
PongFrame == <<"P", "O", "N", "G", " ", ":", "t", "m", "i", ".", "t", "w", "i", "t", "c", "h", ".", "t", "v", "\n">>

(***************************************************************************)
(* State.                                                                  *)
(***************************************************************************)
VARIABLES
    user,             \* self.__user
    token,            \* self.__token
    sock,             \* self.__sock: "new", "connected" or "closed"
    queue,            \* self.__queue
    is_running,       \* self.__is_running
    is_reconnecting,  \* self.__is_reconnecting
    thread,           \* self.__thread: "None" or "Thread"
    buffer,           \* the local buffer of the __recv generator
    pc,               \* where the caller, the handler thread and the consumer are
    herr,             \* the exception that ended the handler thread, "" if none
    net,              \* the TCP connection: "up" or "reset"
    inbuf,            \* bytes the server sent that recv has not returned yet
    sent,             \* frames written to the socket, in order
    nsent,            \* lines the server has sent
    lastCall,         \* the caller's last call and the client's state when it began
    sawRunning,       \* the consumer's read() has found the client running
    pushed,           \* history: messages put on the queue, in order
    delivered,        \* history: messages read() yielded, in order
    discarded,        \* history: messages disconnect() removed from the queue
    fin,              \* the input a function is applied to, "none" in the client
    fout              \* what the function has produced of it so far

vars == <<user, token, sock, queue, is_running, is_reconnecting, thread, buffer,
          pc, herr, net, inbuf, sent, nsent, lastCall, sawRunning,
          pushed, delivered, discarded, fin, fout>>

Caller == "caller"
Handler == "handler"
Consumer == "consumer"

\* the tokens the client is constructed with
InitTokens == {DEFAULT_TOKEN}

\* Twitch.__init__ called with the token t
Construct(t) ==
    /\ user = DEFAULT_USER
    /\ token = LStrip(t, SetOf(<<"o", "a", "u", "t", "h", ":">>))
    /\ sock = "new"
    /\ queue = <<>>
    /\ is_running = FALSE
    /\ is_reconnecting = FALSE
    /\ thread = "None"
    /\ buffer = <<>>
    /\ pc = [p \in {Caller, Handler, Consumer} |->
                IF p = Caller THEN "idle" ELSE IF p = Handler THEN "none" ELSE "off"]
    /\ herr = ""
    /\ net = "up"
    /\ inbuf = <<>>
    /\ sent = <<>>
    /\ nsent = 0
    /\ lastCall = [op |-> "none", from |-> "none"]
    /\ sawRunning = FALSE
    /\ pushed = <<>>
    /\ delivered = <<>>
    /\ discarded = <<>>

\* the client after Twitch()
Init ==
    /\ \E t \in InitTokens : Construct(t)
    /\ fin = "none"
    /\ fout = "none"

\* the handler thread exists and has neither returned nor raised
ThreadAlive == pc[Handler] \notin {"none", "done", "died"}

(***************************************************************************)
(* queue.Queue (unbounded, first in first out).                            *)
(***************************************************************************)
\* a queue that hands out the newest item first
PutFront(q, item) == <<item>> \o q

\* put_nowait(item)
Put(q, item) == Append(q, item)

\* get() returns the oldest item and removes it; it blocks on an empty queue
GetItem(q) == Head(q)
GetRest(q) == Tail(q)

(***************************************************************************)
(* The server and the network.                                             *)
(***************************************************************************)
\* the server writes one more line to the connection
ServerSend ==
    /\ sock = "connected"
    /\ net = "up"
    /\ nsent < MaxLines
    /\ \E line \in ServerLines(nsent + 1) : inbuf' = inbuf \o line \o LineEnd
    /\ nsent' = nsent + 1
    /\ UNCHANGED <<fin, fout, user, token, sock, queue, is_running, is_reconnecting, thread,
                   buffer, pc, herr, net, sent, lastCall, sawRunning,
                   pushed, delivered, discarded>>

\* the connection fails: from now on recv and send on the socket raise
NetReset ==
    /\ sock = "connected"
    /\ net = "up"
    /\ net' = "reset"
    /\ UNCHANGED <<fin, fout, user, token, sock, queue, is_running, is_reconnecting, thread,
                   buffer, pc, herr, inbuf, sent, nsent, lastCall,
                   sawRunning, pushed, delivered, discarded>>

(***************************************************************************)
(* Twitch.connect, called by the caller.                                   *)
(***************************************************************************)
\* what the client is when the caller makes a call
ClientState ==
    IF sock = "closed" THEN "disconnected"
    ELSE IF thread = "None" THEN "never connected"
    ELSE "connected"

CanConnectAgain == TRUE

\* socket.connect is accepted by a socket that is neither connected nor closed
CanConnect == sock = "new"

\* self.__sock.connect(...): a new socket connects or the attempt fails
\* (ConnectError); a connected or closed socket raises OSError
ConnectSock ==
    /\ pc[Caller] = "idle"
    /\ lastCall' = [op |-> "connect", from |-> ClientState]
    /\ IF CanConnect
       THEN \E ok \in BOOLEAN :
                IF ok
                THEN /\ sock' = "connected"
                     /\ pc' = [pc EXCEPT ![Caller] = "c_pass"]
                ELSE UNCHANGED <<sock, pc>>
       ELSE UNCHANGED <<sock, pc>>
    /\ UNCHANGED <<fin, fout, user, token, queue, is_running, is_reconnecting, thread,
                   buffer, herr, net, inbuf, sent, nsent, sawRunning, pushed,
                   delivered, discarded>>

HandshakeFrameNickFirst(at) ==
    IF at = "c_pass" THEN NickFrame(user)
    ELSE IF at = "c_nick" THEN PassFrame(token)
    ELSE IF at = "c_tags" THEN CapTagsFrame
    ELSE CapCommandsFrame

\* the frame connect() sends at each of its four send statements
HandshakeFrame(at) ==
    IF at = "c_pass" THEN PassFrame(token)
    ELSE IF at = "c_nick" THEN NickFrame(user)
    ELSE IF at = "c_tags" THEN CapTagsFrame
    ELSE CapCommandsFrame

AfterHandshakeFrame(at) ==
    IF at = "c_pass" THEN "c_nick"
    ELSE IF at = "c_nick" THEN "c_tags"
    ELSE IF at = "c_tags" THEN "c_commands"
    ELSE "c_running"

\* the four self.__sock.send(...) of connect; send raises on a failed connection
ConnectSend ==
    /\ pc[Caller] \in {"c_pass", "c_nick", "c_tags", "c_commands"}
    /\ IF net = "reset"
       THEN /\ pc' = [pc EXCEPT ![Caller] = "idle"]
            /\ UNCHANGED sent
       ELSE /\ sent' = Append(sent, HandshakeFrame(pc[Caller]))
            /\ pc' = [pc EXCEPT ![Caller] = AfterHandshakeFrame(pc[Caller])]
    /\ UNCHANGED <<fin, fout, user, token, sock, queue, is_running, is_reconnecting, thread,
                   buffer, herr, net, inbuf, nsent, lastCall, sawRunning,
                   pushed, delivered, discarded>>

\* self.__is_running = True
ConnectSetRunning ==
    /\ pc[Caller] = "c_running"
    /\ is_running' = TRUE
    /\ pc' = [pc EXCEPT ![Caller] = "c_start"]
    /\ UNCHANGED <<fin, fout, user, token, sock, queue, is_reconnecting, thread, buffer,
                   herr, net, inbuf, sent, nsent, lastCall, sawRunning,
                   pushed, delivered, discarded>>

\* self.__thread = threading.Thread(...); self.__thread.start(): the thread
\* enters __message_handler, whose generator starts with buffer = ""
ConnectStartThread ==
    /\ pc[Caller] = "c_start"
    /\ thread' = "Thread"
    /\ buffer' = <<>>
    /\ pc' = [pc EXCEPT ![Caller] = "idle", ![Handler] = "h_while"]
    /\ UNCHANGED <<fin, fout, user, token, sock, queue, is_running, is_reconnecting, herr,
                   net, inbuf, sent, nsent, lastCall, sawRunning, pushed,
                   delivered, discarded>>

(***************************************************************************)
(* Twitch.disconnect, run by the caller or, for a forced reconnect, by the *)
(* handler thread itself.                                                  *)
(***************************************************************************)
\* where disconnect() returns to: the caller's call ends; the handler would go
\* on to self.connect() and self.__is_reconnecting = False.  The handler never
\* gets there: its disconnect() ends in DisconnectJoin (C5_CloseAfterThreadExit
\* states that "rc_connect" is not reached), so those two statements have no
\* action.
AfterDisconnect(who) == IF who = Caller THEN "idle" ELSE "rc_connect"

\* self.__is_running = False
DisconnectBegin(who) ==
    /\ IF who = Caller
       THEN /\ pc[Caller] = "idle"
            /\ lastCall' = [op |-> "disconnect", from |-> ClientState]
       ELSE /\ pc[Handler] = "d_begin"
            /\ UNCHANGED lastCall
    /\ is_running' = FALSE
    /\ pc' = [pc EXCEPT ![who] = "d_join"]
    /\ UNCHANGED <<fin, fout, user, token, sock, queue, is_reconnecting, thread, buffer,
                   herr, net, inbuf, sent, nsent, sawRunning, pushed, delivered,
                   discarded>>

\* a join() that does not wait for the thread
JoinedAtOnce == TRUE

\* Thread.join() returns once the thread has ended
Joined == ~ThreadAlive

\* if self.__thread: self.__thread.join()
\* Thread.join() raises RuntimeError("cannot join current thread") when the
\* handler thread calls it on itself: the exception ends the thread.
DisconnectJoin(who) ==
    /\ pc[who] = "d_join"
    /\ IF thread = "None"
       THEN /\ pc' = [pc EXCEPT ![who] = "d_close"]
            /\ UNCHANGED herr
       ELSE IF who = Handler
       THEN /\ pc' = [pc EXCEPT ![who] = "died"]
            /\ herr' = "join"
       ELSE /\ Joined
            /\ pc' = [pc EXCEPT ![who] = "d_close"]
            /\ UNCHANGED herr
    /\ UNCHANGED <<fin, fout, user, token, sock, queue, is_running, is_reconnecting, thread,
                   buffer, net, inbuf, sent, nsent, lastCall, sawRunning,
                   pushed, delivered, discarded>>

\* self.__sock.close()
DisconnectClose(who) ==
    /\ pc[who] = "d_close"
    /\ sock' = "closed"
    /\ pc' = [pc EXCEPT ![who] = "d_if"]
    /\ UNCHANGED <<fin, fout, user, token, queue, is_running, is_reconnecting, thread,
                   buffer, herr, net, inbuf, sent, nsent, lastCall,
                   sawRunning, pushed, delivered, discarded>>

\* a disconnect() that empties the queue whatever the reconnecting flag says
ClearsQueueAlways == TRUE

\* the condition of "if not self.__is_reconnecting:"
ClearsQueue == ~is_reconnecting

\* if not self.__is_reconnecting:
DisconnectIf(who) ==
    /\ pc[who] = "d_if"
    /\ pc' = [pc EXCEPT ![who] = IF ClearsQueue THEN "d_while" ELSE AfterDisconnect(who)]
    /\ UNCHANGED <<fin, fout, user, token, sock, queue, is_running, is_reconnecting, thread,
                   buffer, herr, net, inbuf, sent, nsent, lastCall,
                   sawRunning, pushed, delivered, discarded>>

\* while not self.__queue.empty():
DisconnectWhile(who) ==
    /\ pc[who] = "d_while"
    /\ pc' = [pc EXCEPT ![who] = IF queue # <<>> THEN "d_get" ELSE AfterDisconnect(who)]
    /\ UNCHANGED <<fin, fout, user, token, sock, queue, is_running, is_reconnecting, thread,
                   buffer, herr, net, inbuf, sent, nsent, lastCall,
                   sawRunning, pushed, delivered, discarded>>

\* self.__queue.get(), the item is dropped
DisconnectGet(who) ==
    /\ pc[who] = "d_get"
    /\ queue # <<>>
    /\ discarded' = Append(discarded, GetItem(queue))
    /\ queue' = GetRest(queue)
    /\ pc' = [pc EXCEPT ![who] = "d_while"]
    /\ UNCHANGED <<fin, fout, user, token, sock, is_running, is_reconnecting, thread,
                   buffer, herr, net, inbuf, sent, nsent, lastCall,
                   sawRunning, pushed, delivered>>

(***************************************************************************)
(* Twitch.__recv and Twitch.__message_handler: the handler thread.         *)
(***************************************************************************)
\* while self.__is_running and not self.__is_reconnecting:
\* when the condition fails the generator ends, the for loop of
\* __message_handler ends and the thread returns
HandlerWhile ==
    /\ pc[Handler] = "h_while"
    /\ pc' = [pc EXCEPT ![Handler] =
                 IF is_running /\ ~is_reconnecting THEN "h_recv" ELSE "done"]
    /\ UNCHANGED <<fin, fout, user, token, sock, queue, is_running, is_reconnecting, thread,
                   buffer, herr, net, inbuf, sent, nsent, lastCall,
                   sawRunning, pushed, delivered, discarded>>

\* data = self.__sock.recv(2048).decode("utf-8"); buffer += data
\* recv blocks until bytes are there; on a failed connection it raises, and
\* the exception ends the thread
HandlerRecv ==
    /\ pc[Handler] = "h_recv"
    /\ inbuf # <<>> \/ net = "reset"
    /\ IF inbuf # <<>>
       THEN LET n == IF Len(inbuf) < RecvSize THEN Len(inbuf) ELSE RecvSize
                data == SubSeq(inbuf, 1, n)
            IN /\ inbuf' = SubSeq(inbuf, n + 1, Len(inbuf))
               /\ IF Decodable(data)
                  THEN /\ buffer' = buffer \o Decode(data)
                       /\ pc' = [pc EXCEPT ![Handler] = "h_lines"]
                       /\ UNCHANGED herr
                  ELSE /\ pc' = [pc EXCEPT ![Handler] = "died"]
                       /\ herr' = "decode"
                       /\ UNCHANGED buffer
       ELSE /\ pc' = [pc EXCEPT ![Handler] = "died"]
            /\ herr' = "read"
            /\ UNCHANGED <<buffer, inbuf>>
    /\ UNCHANGED <<fin, fout, user, token, sock, queue, is_running, is_reconnecting, thread,
                   net, sent, nsent, lastCall, sawRunning, pushed,
                   delivered, discarded>>

\* line, buffer = buffer.split("\n", 1)
NextLine(buf) == Split(buf, <<"\n">>, 1)

ClassifyReconnectFirst(recv) ==
    IF StartsWith(recv, PING) THEN "PING"
    ELSE IF Contains(recv, RECONNECT) THEN "RECONNECT"
    ELSE IF Contains(recv, PRIVMSG) THEN "PRIVMSG"
    ELSE "ignored"

\* the branch of __message_handler a line takes
Classify(recv) ==
    IF StartsWith(recv, PING) THEN "PING"
    ELSE IF Contains(recv, PRIVMSG) THEN "PRIVMSG"
    ELSE IF Contains(recv, RECONNECT) THEN "RECONNECT"
    ELSE "ignored"

\* while "\n" in buffer: ...; yield line.strip(), and the body of the for loop
\* of __message_handler on the yielded line
HandlerLine ==
    /\ pc[Handler] = "h_lines"
    /\ IF Contains(buffer, <<"\n">>)
       THEN LET recv == Strip(NextLine(buffer)[1])
                kind == Classify(recv)
            IN /\ buffer' = NextLine(buffer)[2]
               /\ IF kind = "PING"
                  THEN \* self.__pong()
                       IF net = "reset"
                       THEN /\ pc' = [pc EXCEPT ![Handler] = "died"]
                            /\ herr' = "send"
                            /\ UNCHANGED <<sent, queue, pushed, is_reconnecting>>
                       ELSE /\ sent' = Append(sent, PongFrame)
                            /\ UNCHANGED <<pc, herr, queue, pushed, is_reconnecting>>
                  ELSE IF kind = "PRIVMSG"
                  THEN \* self.__queue.put_nowait(TwitchPrivateMessage.parse(recv))
                       IF ParseError(recv) = ""
                       THEN /\ queue' = Put(queue, Parse(recv))
                            /\ pushed' = Append(pushed, Parse(recv))
                            /\ UNCHANGED <<pc, herr, sent, is_reconnecting>>
                       ELSE /\ pc' = [pc EXCEPT ![Handler] = "died"]
                            /\ herr' = "parse"
                            /\ UNCHANGED <<sent, queue, pushed, is_reconnecting>>
                  ELSE IF kind = "RECONNECT"
                  THEN \* self.__is_reconnecting = True; self.disconnect()
                       /\ is_reconnecting' = TRUE
                       /\ pc' = [pc EXCEPT ![Handler] = "d_begin"]
                       /\ UNCHANGED <<herr, sent, queue, pushed>>
                  ELSE UNCHANGED <<pc, herr, sent, queue, pushed, is_reconnecting>>
       ELSE /\ pc' = [pc EXCEPT ![Handler] = "h_while"]
            /\ UNCHANGED <<buffer, herr, sent, queue, pushed, is_reconnecting>>
    /\ UNCHANGED <<fin, fout, user, token, sock, is_running, thread, net, inbuf, nsent,
                   lastCall, sawRunning, delivered, discarded>>

(***************************************************************************)
(* Twitch.read: the consumer iterates over the generator.                  *)
(***************************************************************************)
\* the consumer calls read() and asks for the first message
ReadStart ==
    /\ pc[Consumer] = "off"
    /\ pc' = [pc EXCEPT ![Consumer] = "r_while"]
    /\ UNCHANGED <<fin, fout, user, token, sock, queue, is_running, is_reconnecting, thread,
                   buffer, herr, net, inbuf, sent, nsent, lastCall,
                   sawRunning, pushed, delivered, discarded>>

\* while self.__is_running: when the condition fails the generator ends
ReadWhile ==
    /\ pc[Consumer] = "r_while"
    /\ pc' = [pc EXCEPT ![Consumer] = IF is_running THEN "r_get" ELSE "r_end"]
    /\ sawRunning' = (sawRunning \/ is_running)
    /\ UNCHANGED <<fin, fout, user, token, sock, queue, is_running, is_reconnecting, thread,
                   buffer, herr, net, inbuf, sent, nsent, lastCall,
                   pushed, delivered, discarded>>

\* yield self.__queue.get(), and the consumer asks for the next message
ReadGet ==
    /\ pc[Consumer] = "r_get"
    /\ queue # <<>>
    /\ delivered' = Append(delivered, GetItem(queue))
    /\ queue' = GetRest(queue)
    /\ pc' = [pc EXCEPT ![Consumer] = "r_while"]
    /\ UNCHANGED <<fin, fout, user, token, sock, is_running, is_reconnecting, thread,
                   buffer, herr, net, inbuf, sent, nsent, lastCall,
                   sawRunning, pushed, discarded>>

(***************************************************************************)
(* Specifications.                                                         *)
(***************************************************************************)
Disconnect(who) ==
    \/ DisconnectBegin(who)
    \/ DisconnectJoin(who)
    \/ DisconnectClose(who)
    \/ DisconnectIf(who)
    \/ DisconnectWhile(who)
    \/ DisconnectGet(who)

Next ==
    \/ ServerSend
    \/ NetReset
    \/ ConnectSock
    \/ ConnectSend
    \/ ConnectSetRunning
    \/ ConnectStartThread
    \/ \E who \in {Caller, Handler} : Disconnect(who)
    \/ HandlerWhile
    \/ HandlerRecv
    \/ HandlerLine
    \/ ReadStart
    \/ ReadWhile
    \/ ReadGet

Spec == Init /\ [][Next]_vars

(***************************************************************************)
(* Properties.                                                             *)
(***************************************************************************)
\* The server numbers its chat lines, so the message ids of a sequence of
\* messages rise exactly when the messages are in the order their lines
\* arrived and none occurs twice.
InArrivalOrder(msgs) ==
    \A i, j \in 1..Len(msgs) :
        i < j => IntOf(msgs[i].message_id) < IntOf(msgs[j].message_id)

\* the caller's last call was disconnect() and it has returned
CallerDisconnectReturned == pc[Caller] = "idle" /\ lastCall.op = "disconnect"

\* the caller has called disconnect()
CallerHasDisconnected == lastCall.op = "disconnect" \/ lastCall.from = "disconnected"

\* C1: the consumer gets the parsed messages in the order their lines
\* arrived, none twice, and (as long as no disconnect() has emptied the
\* queue) none is skipped: what was delivered followed by what is queued is
\* exactly what was pushed.
C1_FifoDelivery ==
    /\ InArrivalOrder(pushed)
    /\ InArrivalOrder(delivered)
    /\ discarded = <<>> => delivered \o queue = pushed

\* C1 witness: two messages delivered while later ones were still being pushed
C1_Witness ==
    /\ Len(delivered) >= 2
    /\ Len(pushed) > Len(delivered)
    /\ discarded = <<>>

\* C2: the handling of a forced reconnect line runs to its end (the
\* reconnecting flag cleared, the client running again on a connected socket
\* with a dispatch loop): the handler thread never ends with the reconnecting
\* flag still set.
C2_ReconnectReturnsToRunning ==
    pc[Handler] \in {"done", "died"} => ~is_reconnecting

\* C3: once a forced reconnect line has been handled, every message pushed
\* so far is still in the queue or was delivered to the consumer: no
\* disconnect() has removed one.
C3_ReconnectKeepsMessages ==
    is_reconnecting => (discarded = <<>> /\ delivered \o queue = pushed)

\* C3 witness: the reconnection handling has ended, a disconnect() ran to its
\* end afterwards, and the message is still in the queue
C3_Witness ==
    /\ is_reconnecting
    /\ herr = "join"
    /\ CallerDisconnectReturned
    /\ queue # <<>>

\* C4: a disconnect() the caller makes on a connected client returns whatever
\* the server does: the caller never waits in join() for a handler thread that
\* waits in recv() for bytes the server has not sent.
C4_DisconnectReturns ==
    ~(/\ lastCall = [op |-> "disconnect", from |-> "connected"]
      /\ pc[Caller] = "d_join"
      /\ pc[Handler] = "h_recv"
      /\ inbuf = <<>>
      /\ net = "up")

\* C5: the socket is closed only when the handler thread has ended, and when
\* a disconnect() has returned (to the caller, or to the handler thread that
\* called it for a reconnection) no handler thread is alive.
C5_CloseAfterThreadExit ==
    /\ sock = "closed" => ~ThreadAlive
    /\ CallerDisconnectReturned => ~ThreadAlive
    /\ pc[Handler] = AfterDisconnect(Handler) => ~ThreadAlive

\* C5 witness: the caller's disconnect() stopped a running dispatch loop and
\* closed the socket
C5_Witness ==
    /\ CallerDisconnectReturned
    /\ lastCall.from = "connected"
    /\ pc[Handler] = "done"
    /\ sock = "closed"

\* C6: when a disconnect() of the caller returns, the queue is empty.
C6_DisconnectEmptiesQueue ==
    CallerDisconnectReturned => queue = <<>>

\* C7: a chat line that fails to parse does not end the dispatch loop.
C7_ParseFailureKeepsLoop ==
    herr # "parse"

\* C8: when a read from the socket has failed, the consumer gets the end of
\* the stream: it is never left waiting in get() on the empty queue of a
\* client whose handler thread the failed read has ended.
C8_ReadFailureEndsStream ==
    ~(/\ herr = "read"
      /\ pc[Consumer] = "r_get"
      /\ queue = <<>>)

\* C9: a stream of read() that has found the client running ends only after
\* the caller has called disconnect() or a read has failed.
C9_StreamEndsOnlyOnDisconnect ==
    (pc[Consumer] = "r_end" /\ sawRunning) => (CallerHasDisconnected \/ herr = "read")

\* C10: a disconnect() on a client that was never connected or is already
\* disconnected does not block, and it returns with the client disconnected
\* and the queue empty.
C10_DisconnectIdempotent ==
    (lastCall.op = "disconnect" /\ lastCall.from \in {"never connected", "disconnected"}) =>
        /\ pc[Caller] = "d_join" => (thread = "None" \/ Joined)
        /\ pc[Caller] = "d_get" => queue # <<>>
        /\ pc[Caller] = "idle" => (queue = <<>> /\ ~is_running /\ sock = "closed")

(***************************************************************************)
(* The line framer of __recv on its own: a byte stream reaches recv in     *)
(* chunks of any sizes.                                                    *)
(***************************************************************************)
MaxStream == 4

StreamBytes == {"a", "\r", "\n", LeadByte, ContByte}

\* what a server can send: UTF-8 text of at most MaxStream bytes
Streams ==
    {s \in UNION {[1..n -> StreamBytes] : n \in 1..MaxStream} : Decodable(s)}

\* the lines the inner loop of __recv yields from a buffer, in order
RECURSIVE AllLines(_)
AllLines(buf) ==
    IF Contains(buf, <<"\n">>)
    THEN <<Strip(NextLine(buf)[1])>> \o AllLines(NextLine(buf)[2])
    ELSE <<>>

FramerInit ==
    /\ \E t \in InitTokens : Construct(t)
    /\ fin \in {[stream |-> s, rest |-> s] : s \in Streams}
    /\ fout = [buffer |-> <<>>, lines |-> <<>>, err |-> ""]

\* data = self.__sock.recv(2048).decode("utf-8"); buffer += data
\* recv returns the next n bytes of the stream, whatever n the network chose
FramerRecv ==
    /\ fout.err = ""
    /\ ~Contains(fout.buffer, <<"\n">>)
    /\ \E n \in 1..Len(fin.rest) :
          LET data == SubSeq(fin.rest, 1, n)
          IN /\ n <= RecvSize
             /\ fin' = [fin EXCEPT !.rest = SubSeq(fin.rest, n + 1, Len(fin.rest))]
             /\ IF Decodable(data)
                THEN fout' = [fout EXCEPT !.buffer = fout.buffer \o Decode(data)]
                ELSE fout' = [fout EXCEPT !.err = "decode"]
    /\ UNCHANGED <<user, token, sock, queue, is_running, is_reconnecting, thread,
                   buffer, pc, herr, net, inbuf, sent, nsent, lastCall,
                   sawRunning, pushed, delivered, discarded>>

\* line, buffer = buffer.split("\n", 1); yield line.strip()
FramerYield ==
    /\ fout.err = ""
    /\ Contains(fout.buffer, <<"\n">>)
    /\ fout' = [fout EXCEPT !.buffer = NextLine(fout.buffer)[2],
                            !.lines = Append(fout.lines,
                                             Strip(NextLine(fout.buffer)[1]))]
    /\ UNCHANGED <<fin, user, token, sock, queue, is_running, is_reconnecting,
                   thread, buffer, pc, herr, net, inbuf, sent, nsent, lastCall,
                   sawRunning, pushed, delivered, discarded>>

FramerNext == FramerRecv \/ FramerYield

FramerSpec == FramerInit /\ [][FramerNext]_vars

\* C11: however the byte stream is cut into chunks, the framer raises nothing,
\* and once the whole stream has been received and framed it has emitted
\* exactly the lines it emits when the stream arrives as one chunk
C11_ChunkingInvariant ==
    /\ fout.err = ""
    /\ (fin.rest = <<>> /\ ~Contains(fout.buffer, <<"\n">>))
           => fout.lines = AllLines(Decode(fin.stream))

(***************************************************************************)
(* The body of the dispatch loop on one line on its own: the three-way     *)
(* branch of __message_handler and, for a chat line, the parser.           *)
(***************************************************************************)
\* the badges tags of the chat lines
BadgeLists ==
    {<<"v", "i", "p", "/", "1">>,
     <<"b", "r", "o", "a", "d", "c", "a", "s", "t", "e", "r", "/", "1">>,
     <<"s", "u", "b", "s", "c", "r", "i", "b", "e", "r", "/", "1", "2", ",", "p", "r", "e", "m", "i", "u", "m", "/", "1">>,
     <<"m", "o", "d", "e", "r", "a", "t", "o", "r", "/", "1", ",", "s", "u", "b", "s", "c", "r", "i", "b", "e", "r", "/", "3">>}

\* the texts users wrote
Texts ==
    {<<"h", "i">>,
     <<"a", ":", "b">>,
     <<":", ")">>,
     <<"h", "i", " ", "t", "h", "e", "r", "e", " ", ":", " ", "f", "r", "i", "e", "n", "d">>,
     <<"x", " ", ":", "y", " ", ":", "z">>,
     <<"R", "E", "C", "O", "N", "N", "E", "C", "T">>,
     <<"p", "l", "e", "a", "s", "e", " ", "R", "E", "C", "O", "N", "N", "E", "C", "T", " ", "n", "o", "w">>,
     <<"P", "I", "N", "G">>,
     <<"s", "a", "y", " ", "P", "R", "I", "V", "M", "S", "G">>,
     <<"b", "y", "e">>}

\* the chat line the server sends for a text written in channel c
TaggedLine(badges, text) ==
    <<"@", "b", "a", "d", "g", "e", "-", "i", "n", "f", "o", "=", ";", "b", "a", "d", "g", "e", "s", "=">>
    \o badges
    \o <<";", "c", "o", "l", "o", "r", "=", ";", "d", "i", "s", "p", "l", "a", "y", "-", "n", "a", "m", "e", "=", "A", ";", "f", "i", "r", "s", "t", "-", "m", "s", "g", "=", "0", ";", "i", "d", "=", "1", ";", "m", "o", "d", "=", "0", ";", "r", "e", "t", "u", "r", "n", "i", "n", "g", "-", "c", "h", "a", "t", "t", "e", "r", "=", "0", ";", "r", "o", "o", "m", "-", "i", "d", "=", "1", ";", "s", "u", "b", "s", "c", "r", "i", "b", "e", "r", "=", "0", ";", "t", "u", "r", "b", "o", "=", "0", ";", "u", "s", "e", "r", "-", "i", "d", "=", "2", " ", ":", "a", "!", "a", "@", "a", ".", "t", "m", "i", ".", "t", "w", "i", "t", "c", "h", ".", "t", "v", " ", "P", "R", "I", "V", "M", "S", "G", " ", "#", "c", " ", ":">>
    \o text

\* lines the server sends that are no tagged chat lines
PlainLines ==
    {<<"P", "I", "N", "G", " ", ":", "t", "m", "i", ".", "t", "w", "i", "t", "c", "h", ".", "t", "v">>,
     <<"P", "I", "N", "G", " ", ":", "R", "E", "C", "O", "N", "N", "E", "C", "T">>,
     <<":", "t", "m", "i", ".", "t", "w", "i", "t", "c", "h", ".", "t", "v", " ", "R", "E", "C", "O", "N", "N", "E", "C", "T">>,
     <<":", "t", "m", "i", ".", "t", "w", "i", "t", "c", "h", ".", "t", "v", " ", "N", "O", "T", "I", "C", "E", " ", "#", "c", " ", ":", "R", "E", "C", "O", "N", "N", "E", "C", "T", " ", "s", "o", "o", "n">>,
     <<":", "t", "m", "i", ".", "t", "w", "i", "t", "c", "h", ".", "t", "v", " ", "0", "0", "1", " ", "a", " ", ":", "W", "e", "l", "c", "o", "m", "e">>,
     <<":", "a", "!", "a", "@", "a", ".", "t", "m", "i", ".", "t", "w", "i", "t", "c", "h", ".", "t", "v", " ", "P", "R", "I", "V", "M", "S", "G", " ", "#", "c", " ", ":", "h", "i">>}

LineInputs ==
    {[chat |-> TRUE, badges |-> b, text |-> t, line |-> TaggedLine(b, t)] :
        b \in BadgeLists, t \in Texts}
    \cup {[chat |-> FALSE, badges |-> <<>>, text |-> <<>>, line |-> l] :
        l \in PlainLines}

LineInit ==
    /\ \E t \in InitTokens : Construct(t)
    /\ fin \in LineInputs
    /\ fout = [stage |-> "yielded", kind |-> "", err |-> "", msg |-> <<>>]

\* if recv.startswith("PING") ... elif "PRIVMSG" in recv ... elif "RECONNECT" in recv
LineClassify ==
    /\ fout.stage = "yielded"
    /\ fout' = [fout EXCEPT !.stage = "classified", !.kind = Classify(fin.line)]
    /\ UNCHANGED <<fin, user, token, sock, queue, is_running, is_reconnecting,
                   thread, buffer, pc, herr, net, inbuf, sent, nsent, lastCall,
                   sawRunning, pushed, delivered, discarded>>

\* TwitchPrivateMessage.parse(recv) in the PRIVMSG branch
LineParse ==
    /\ fout.stage = "classified"
    /\ fout.kind = "PRIVMSG"
    /\ fout' = [fout EXCEPT !.stage = "parsed",
                            !.err = ParseError(fin.line),
                            !.msg = IF ParseError(fin.line) = ""
                                    THEN Parse(fin.line) ELSE <<>>]
    /\ UNCHANGED <<fin, user, token, sock, queue, is_running, is_reconnecting,
                   thread, buffer, pc, herr, net, inbuf, sent, nsent, lastCall,
                   sawRunning, pushed, delivered, discarded>>

LineNext == LineClassify \/ LineParse

LineSpec == LineInit /\ [][LineNext]_vars

\* C12: the content of a parsed chat line is the whole text the user wrote,
\* whatever ':' and ' :' it holds
C12_ContentIsWholeText ==
    (fin.chat /\ fout.stage = "parsed")
        => (fout.err = "" /\ fout.msg.content = fin.text)

\* the name of a badge: what stands before its '/version'
BadgeName(badge) == Split(badge, <<"/">>, NoLimit)[1]

\* the badge names of a badges tag
BadgeNames(badges) ==
    IF badges = <<>> THEN {}
    ELSE {BadgeName(b) : b \in SetOf(Split(badges, <<",">>, NoLimit))}

\* C13: the badges of a parsed chat line are the badge names of its badges
\* tag, without the '/version' suffixes
C13_BadgesAreNames ==
    (fin.chat /\ fout.stage = "parsed")
        => (fout.err = "" /\ fout.msg.badges = BadgeNames(fin.badges))

\* C19: a line takes exactly one branch, tried in the order PING, chat,
\* forced reconnect: a line that starts with PING is a PING, a chat line is
\* chat and is parsed into a message even when its text holds RECONNECT, and
\* only a line that holds RECONNECT, does not start with PING and does not
\* hold PRIVMSG starts a reconnection
C19_ClassificationOrdered ==
    /\ fout.stage # "yielded"
           => /\ StartsWith(fin.line, PING) => fout.kind = "PING"
              /\ fin.chat => fout.kind = "PRIVMSG"
              /\ fout.kind = "RECONNECT"
                     => /\ Contains(fin.line, RECONNECT)
                        /\ ~StartsWith(fin.line, PING)
                        /\ ~Contains(fin.line, PRIVMSG)
    /\ (fin.chat /\ fout.stage = "parsed") => fout.err = ""

C19_Witness ==
    /\ fin.chat
    /\ Contains(fin.text, RECONNECT)
    /\ fout.stage = "parsed"
    /\ fout.kind = "PRIVMSG"
    /\ fout.err = ""

(***************************************************************************)
(* The claims about the threads, the socket and the frames of the client.  *)
(***************************************************************************)
\* the caller is inside connect(), past self.__sock.connect
InConnect ==
    pc[Caller] \in {"c_pass", "c_nick", "c_tags", "c_commands", "c_running", "c_start"}

\* C14: at most one dispatch loop is alive: connect() gets past its
\* socket.connect, towards starting a thread, only while no handler thread
\* is alive, and the handler thread never reaches a connect() of its own
C14_OneDispatchLoop ==
    /\ InConnect => ~ThreadAlive
    /\ pc[Handler] # "rc_connect"

\* connect() was called again while the dispatch loop was alive, and has returned
C14_Witness ==
    /\ ThreadAlive
    /\ pc[Caller] = "idle"
    /\ lastCall = [op |-> "connect", from |-> "connected"]

\* a line that the PRIVMSG branch turns into a message
IsChatLine(line) == Classify(line) = "PRIVMSG" /\ ParseError(line) = ""

\* C15: a forced reconnect loses no chat line: when the handling of the
\* forced-reconnect line has ended, no well-formed chat line that was
\* received with it is left unhandled in the framer's buffer
C15_ReconnectLosesNoLine ==
    (is_reconnecting /\ pc[Handler] \in {"done", "died"})
        => \A i \in 1..Len(AllLines(buffer)) : ~IsChatLine(AllLines(buffer)[i])

\* how many times the first frame of the handshake has been sent
HandshakeCount == Cardinality({i \in 1..Len(sent) : sent[i] = PassFrame(token)})

\* C16: a forced reconnect performs the handshake on a socket of its own:
\* when the handling of the forced-reconnect line has ended, the socket of
\* the first connection is closed and the handshake has been sent a second
\* time, and the connect() of the handling is never issued on a closed socket
C16_ReconnectOnNewSocket ==
    /\ (is_reconnecting /\ pc[Handler] \in {"done", "died"})
           => (sock = "closed" /\ HandshakeCount >= 2)
    /\ pc[Handler] = "rc_connect" => sock # "closed"

(***************************************************************************)
(* The caller's send operations next to connect(), disconnect() and the    *)
(* handler thread.                                                         *)
(***************************************************************************)
MaxFrames == 1

\* the channel arguments, with and without the leading '#'
Channels == {<<"c">>, <<"#", "c">>}

MessageText == <<"h", "i">>
MessageId == <<"1">>

\* f"JOIN #{channel}\n" after channel = channel.lstrip("#")
JoinFrame(channel) ==
    <<"J", "O", "I", "N", " ", "#">> \o LStrip(channel, {"#"}) \o <<"\n">>

\* f"PART #{channel}\n"
PartFrame(channel) ==
    <<"P", "A", "R", "T", " ", "#">> \o LStrip(channel, {"#"}) \o <<"\n">>

\* f"PRIVMSG #{channel} :{message}\n"
PrivmsgFrame(channel, message) ==
    <<"P", "R", "I", "V", "M", "S", "G", " ", "#">> \o LStrip(channel, {"#"})
    \o <<" ", ":">> \o message \o <<"\n">>

\* f"@reply-parent-msg-id={message_id} PRIVMSG #{channel} :{reply}\n"
ReplyFrame(message_id, channel, reply) ==
    <<"@", "r", "e", "p", "l", "y", "-", "p", "a", "r", "e", "n", "t", "-", "m", "s", "g", "-", "i", "d", "=">> \o message_id
    \o <<" ", "P", "R", "I", "V", "M", "S", "G", " ", "#">> \o LStrip(channel, {"#"})
    \o <<" ", ":">> \o reply \o <<"\n">>

\* the frames join, leave, send_message and send_reply can send
CallerFrames ==
    UNION {{JoinFrame(ch), PartFrame(ch), PrivmsgFrame(ch, MessageText),
             ReplyFrame(MessageId, ch, MessageText)} : ch \in Channels}

CallerFrameCount == Cardinality({i \in 1..Len(sent) : sent[i] \in CallerFrames})

\* self.__sock.send(frame) by the caller: the frame goes out on a connected
\* socket; on a socket that was never connected, is closed or has lost its
\* connection send raises and nothing is sent
SockSend(frame) ==
    /\ pc[Caller] = "idle"
    /\ CallerFrameCount < MaxFrames
    /\ IF sock = "connected" /\ net = "up"
       THEN sent' = Append(sent, frame)
       ELSE UNCHANGED sent
    /\ UNCHANGED <<fin, fout, user, token, sock, queue, is_running, is_reconnecting,
                   thread, buffer, pc, herr, net, inbuf, nsent, lastCall,
                   sawRunning, pushed, delivered, discarded>>

\* Twitch.join
Join == \E ch \in Channels : SockSend(JoinFrame(ch))

\* Twitch.leave
Leave == \E ch \in Channels : SockSend(PartFrame(ch))

\* Twitch.send_message
SendMessage == \E ch \in Channels : SockSend(PrivmsgFrame(ch, MessageText))

\* Twitch.send_reply
SendReply == \E ch \in Channels : SockSend(ReplyFrame(MessageId, ch, MessageText))

\* the server sends a PING line, the one line the client answers with a frame
ServerPing ==
    /\ sock = "connected"
    /\ net = "up"
    /\ nsent < MaxLines
    /\ inbuf' = inbuf \o PingLine \o LineEnd
    /\ nsent' = nsent + 1
    /\ UNCHANGED <<fin, fout, user, token, sock, queue, is_running, is_reconnecting,
                   thread, buffer, pc, herr, net, sent, lastCall, sawRunning,
                   pushed, delivered, discarded>>

SendNext ==
    \/ ServerPing
    \/ NetReset
    \/ ConnectSock
    \/ ConnectSend
    \/ ConnectSetRunning
    \/ ConnectStartThread
    \/ Join
    \/ Leave
    \/ SendMessage
    \/ SendReply
    \/ HandlerWhile
    \/ HandlerRecv
    \/ HandlerLine

SendSpec == Init /\ [][SendNext]_vars

\* the frames of the handshake, in the order of the claim
Handshake == <<PassFrame(token), NickFrame(user), CapTagsFrame, CapCommandsFrame>>

\* C17: the first frames on the socket are PASS, NICK, CAP REQ tags and
\* CAP REQ commands, in this order and before any other frame, and the client
\* is marked running and its dispatch loop is started only after all four
C17_HandshakeFirst ==
    /\ \A i \in 1..Len(sent) : i <= Len(Handshake) => sent[i] = Handshake[i]
    /\ is_running => Len(sent) >= Len(Handshake)
    /\ pc[Caller] = "c_start" => Len(sent) >= Len(Handshake)
    /\ thread = "Thread" => Len(sent) >= Len(Handshake)

\* a PONG and a frame of the caller have gone out after the handshake
C17_Witness ==
    /\ Len(sent) >= Len(Handshake) + 2
    /\ \E i \in 1..Len(sent) : sent[i] = PongFrame
    /\ \E i \in 1..Len(sent) : sent[i] \in CallerFrames

\* the handler thread takes a line that starts with PING from its buffer
TakesPingLine ==
    /\ pc[Handler] = "h_lines"
    /\ Contains(buffer, <<"\n">>)
    /\ StartsWith(Strip(NextLine(buffer)[1]), PING)
    /\ buffer' = NextLine(buffer)[2]

\* C18: on a line that starts with PING the dispatch loop sends the one
\* frame 'PONG :tmi.twitch.tv' within that step, before it takes the next
\* line, and leaves the queue and the state of the connection as they are
C18_PingAnswered ==
    [][(TakesPingLine /\ net = "up")
          => /\ sent' = Append(sent, <<"P", "O", "N", "G", " ", ":", "t", "m", "i", ".", "t", "w", "i", "t", "c", "h", ".", "t", "v">> \o <<"\n">>)
             /\ pc'[Handler] = "h_lines"
             /\ UNCHANGED <<queue, pushed, sock, is_running, is_reconnecting,
                            thread, herr>>]_vars

\* a PING line has been answered and the loop is at its next line
C18_Witness ==
    /\ \E i \in 1..Len(sent) : sent[i] = PongFrame
    /\ pc[Handler] = "h_lines"
    /\ herr = ""

(***************************************************************************)
(* The token argument of the constructor and the PASS frame of connect().  *)
(***************************************************************************)
\* tokens X as their owners hold them, without the prefix
TokenBodies ==
    {<<"1", "2", "3", "4", "5", "6", "7", "8", "9", "0">>,
     <<"x", "y", "z">>,
     <<"a", "b", "c">>,
     <<"a", "u", "t", "h", "1", "2", "3">>,
     <<"t", "o", "k", "e", "n">>,
     <<"h", "e", "l", "l", "o">>,
     <<"z", "o", "a", "u", "t", "h">>,
     <<"o", "1">>,
     <<"q", ":", "t">>,
     <<"9", "a">>}

OauthPrefix == <<"o", "a", "u", "t", "h", ":">>

\* the constructor is called with X or with 'oauth:' followed by X
TokenInputs ==
    {[arg |-> x, body |-> x] : x \in TokenBodies}
    \cup {[arg |-> OauthPrefix \o x, body |-> x] : x \in TokenBodies}

TokenInit ==
    /\ \E a \in TokenInputs : Construct(a.arg) /\ fin = a
    /\ fout = "none"

TokenNext == ConnectSock \/ ConnectSend \/ NetReset

TokenSpec == TokenInit /\ [][TokenNext]_vars

\* C20: whether the client was constructed with X or with 'oauth:' and X,
\* the first frame connect() sends is 'PASS oauth:' followed by all of X
C20_PassFrameKeepsToken ==
    sent # <<>> => sent[1] = <<"P", "A", "S", "S", " ">> \o OauthPrefix \o fin.body \o <<"\n">>

====
